---- MODULE Spec2Model ----
(***************************************************************************)
(* State-machine model of src/src/AudioPlayer.ts: the AudioPlayer class    *)
(* (one HTMLAudioElement with the permission-retry loop of play()) and the *)
(* playlist code of AudioPlayerWidget (playAsPlaylist / playNext).         *)
(*                                                                         *)
(* One action is one run-to-completion step of the single JavaScript       *)
(* thread: a call of a public method up to its first await, or the         *)
(* continuation that a platform callback (settled audio.play() promise,    *)
(* elapsed 250 ms timer, 'ended' event) resumes.                           *)
(*                                                                         *)
(* The playback position (currentTime) is not part of the state: rewind()  *)
(* and the seek in stop() change nothing that is modelled.                 *)
(***************************************************************************)
EXTENDS Integers, Sequences, FiniteSets, Bags, TLC

\* ------------------------------------------------------------------ bounds
MaxObjs == 3        \* AudioPlayer objects that exist at the same time
MaxChains == 2      \* play() invocations of one player in flight at a time
MaxAttempts == 3    \* audio.play() calls one play() invocation makes
MaxRuns == 2        \* playAsPlaylist() invocations (closures over currentIndex)
MaxStarts == 5      \* units the playlist runs start, all together
MaxSources == 1     \* entries of the sources setting
MaxInits == 2       \* initialize() invocations suspended at the same time
MaxUnits == 2       \* players of the widget when it is driven through its whole API

Objs == 1..MaxObjs
Runs == 1..MaxRuns

\* Volumes are tenths: 10 is the 1.0 of the source.
VolumeInputs == {-5, 4, 17}

VARIABLES
    heap,          \* heap[p]: the AudioPlayer object p and its HTMLAudioElement
    players,       \* AudioPlayerWidget.players: sequence of object references
    sources,       \* this.shared.sources
    autoStart,     \* this.shared.autoStart
    inits,         \* the initialize() invocations suspended at an await
    effects,       \* haptic.actionEffects has been set by an initialize()
    currentIndex,  \* currentIndex[r]: the local of the r-th playAsPlaylist() call
    nruns,         \* number of playAsPlaylist() closures created so far
    nstarted,      \* nstarted[r]: how many units run r has started
    trace,         \* what the last step did towards the outside, in order
    fault          \* the exception the last step let escape to its caller

vars ==
    <<heap, players, sources, autoStart, inits, effects, currentIndex, nruns,
      nstarted, trace, fault>>

\* ------------------------------------------------------------- data shapes
NoCallback == [k |-> "none", r |-> 0]
UserCallback == [k |-> "user", r |-> 0]        \* a callback of the caller
TriggerCallback == [k |-> "trigger", r |-> 0]  \* initialize(), line 461
NextCallback(r) == [k |-> "next", r |-> r]     \* playNext's closure, line 479

\* One entry of shared.sources (lines 182-196). ref: the url of a 'url'
\* source, the fileId of a 'file-asset' source, is set.
Source(type, ref, id) == [type |-> type, ref |-> ref, id |-> id]

\* One invocation of play(): where its attemptPlay recursion stands.
\*   st   pending  awaiting audio.play(); the promise is in the element's
\*                 list of pending play promises
\*        rejected awaiting audio.play(); the promise is rejected with err,
\*                 the catch block has not run yet
\*        backoff  awaiting the 250 ms timer
\*        done     the promise returned by play() resolved in the last step
\*   att  audio.play() calls made, blk NotAllowedErrors caught,
\*   boff timers elapsed (each counted up to MaxAttempts), cancelled: stop()/destroy() was called while the
\*   invocation waited for its timer, res: how the invocation ended.
\* The invocations of a player are a bag: two of them in the same position
\* are two entries.
NewChain ==
    [st |-> "new", err |-> "none", att |-> 0, blk |-> 0, boff |-> 0,
     cancelled |-> FALSE, res |-> "none"]

\* An AudioPlayer with its HTMLAudioElement (paused, loop, volume, media:
\* whether the resource has turned out playable) and the play() invocations
\* in flight. History only: plays, the play() calls so far counted up to 2;
\* halt, what has happened since the latest play() call: "stop" (stop() or
\* destroy() was called), "ended" (the 'ended' event fired) or "none";
\* started, an attempt has succeeded and neither stop()/destroy() nor an
\* 'ended' event has come since; stalled, the player was stopped, or a
\* play() on it abandoned, after playNext armed its handler on it.
NoPlayer ==
    [alive |-> FALSE, id |-> 0, playing |-> FALSE, onEndCallback |-> NoCallback,
     loop |-> FALSE, volume |-> 0, paused |-> TRUE, media |-> "unknown",
     released |-> FALSE, plays |-> 0, halt |-> "none", started |-> FALSE,
     stalled |-> FALSE, chains |-> EmptyBag]

Event(name, a) == [ev |-> name, id |-> a.id, playing |-> a.playing]

Min(x, y) == IF x < y THEN x ELSE y
Max(x, y) == IF x > y THEN x ELSE y

One(x) == SetToBag({x})

InFlight(a) == {x \in BagToSet(a.chains) : x.st # "done"}
Resolved(a) == {x \in BagToSet(a.chains) : x.st = "done"}

\* The records of the invocations that resolved in the step before are dropped.
Purge(a) == [a EXCEPT !.chains = [x \in InFlight(a) |-> a.chains[x]]]

\* ------------------------------------------------------------ AudioPlayer
\* The clamp with min and max swapped over.
clampVolumeSwapped(volume) == Max(10, Min(0, volume))

\* Math.min(1, Math.max(0, volume)), in tenths.
clampVolume(volume) == Min(10, Max(0, volume))

\* new AudioPlayer(url, volume); the widget then assigns player.id.
NewPlayer(id, volume) ==
    [NoPlayer EXCEPT !.alive = TRUE, !.id = id, !.volume = clampVolume(volume)]

AbortPending(x) ==
    IF x.st = "pending" THEN [x EXCEPT !.st = "rejected", !.err = "AbortError"] ELSE x

\* HTMLMediaElement.pause(): when the element is not paused it becomes
\* paused and its pending play promises are rejected with AbortError.
audioPause(a) ==
    IF a.paused THEN a
    ELSE [a EXCEPT !.paused = TRUE, !.chains = BagOfAll(AbortPending, @)]

\* HTMLMediaElement.play() as called by the invocation x. allowed is the
\* platform's autoplay decision for this call. A refused call and a call on
\* an element without a playable source return a rejected promise; any other
\* call un-pauses the element and leaves the promise pending.
audioPlay(a, x, allowed) ==
    IF ~allowed
    THEN [a EXCEPT !.chains = @ (+) One([x EXCEPT !.st = "rejected",
                                                  !.err = "NotAllowedError"])]
    ELSE IF a.media = "bad"
    THEN [a EXCEPT !.chains = @ (+) One([x EXCEPT !.st = "rejected",
                                                  !.err = "NotSupportedError"])]
    ELSE [a EXCEPT !.chains = @ (+) One([x EXCEPT !.st = "pending", !.err = "none"]),
                   !.paused = FALSE]

\* attemptPlay up to its await (lines 64-66), for the invocation x.
attemptPlay(a, x, allowed) ==
    audioPlay(a, [x EXCEPT !.att = Min(MaxAttempts, @ + 1)], allowed)

\* play(loop) up to its first await (lines 60-66, 80).
play(a, loop, allowed) ==
    attemptPlay([a EXCEPT !.loop = loop, !.playing = TRUE,
                          !.plays = Min(2, @ + 1), !.halt = "none"],
                NewChain, allowed)

\* The catch block with the branches swapped over: every error arms the timer.
catchPlayRetriesAll(a, x) ==
    [a EXCEPT !.chains = (@ (-) One(x))
                  (+) One([x EXCEPT !.st = "backoff", !.blk = Min(MaxAttempts, @ + 1)])]

\* The catch block (lines 67-77) for the rejected promise of invocation x:
\* NotAllowedError arms the 250 ms timer, any other error abandons.
catchPlay(a, x) ==
    IF x.err = "NotAllowedError"
    THEN [a EXCEPT !.chains = (@ (-) One(x))
                       (+) One([x EXCEPT !.st = "backoff", !.blk = Min(MaxAttempts, @ + 1)])]
    ELSE [a EXCEPT !.playing = FALSE,
                   !.stalled = @ \/ a.onEndCallback.k = "next",
                   !.chains = (@ (-) One(x))
                       (+) One([x EXCEPT !.st = "done", !.res = "abandoned"])]

\* The continuation after the timer with the liveness check inverted.
afterBackoffInverted(a, x, allowed) ==
    LET y == [x EXCEPT !.boff = Min(MaxAttempts, @ + 1)]
        b == [a EXCEPT !.chains = @ (-) One(x)]
    IN  IF b.playing
        THEN [b EXCEPT !.chains = @ (+) One([y EXCEPT !.st = "done", !.res = "aborted"])]
        ELSE attemptPlay(b, y, allowed)

\* The continuation after the timer (lines 71-72).
afterBackoff(a, x, allowed) ==
    LET y == [x EXCEPT !.boff = Min(MaxAttempts, @ + 1)]
        b == [a EXCEPT !.chains = @ (-) One(x)]
    IN  IF ~b.playing
        THEN [b EXCEPT !.chains = @ (+) One([y EXCEPT !.st = "done", !.res = "aborted"])]
        ELSE attemptPlay(b, y, allowed)

\* rewind() (lines 86-88): currentTime = 0.
rewind(a) == a

\* History only: the invocations that a stop()/destroy() call finds waiting
\* for their timer.
MarkStopped(x) ==
    IF x.st = "backoff" THEN [x EXCEPT !.cancelled = TRUE] ELSE x

\* stop() that leaves the playing flag alone, as pause() does.
stopKeepsPlaying(a) ==
    LET b == audioPause(a) IN
    [b EXCEPT !.halt = "stop", !.started = FALSE,
              !.chains = BagOfAll(MarkStopped, @)]

\* stop() (lines 95-100).
stop(a) ==
    LET b == audioPause(a) IN
    [b EXCEPT !.playing = FALSE, !.halt = "stop", !.started = FALSE,
              !.stalled = @ \/ a.onEndCallback.k = "next",
              !.chains = BagOfAll(MarkStopped, @)]

\* pause() (lines 108-110).
pause(a) == audioPause(a)

\* setVolume(volume) (lines 117-119).
setVolume(a, volume) == [a EXCEPT !.volume = clampVolume(volume)]

\* registerOnEndCallback(callback) (lines 129-131).
registerOnEndCallback(a, callback) == [a EXCEPT !.onEndCallback = callback]

\* destroy() (lines 139-150): src = '' and load() leave the element without
\* a playable source.
destroy(a) ==
    LET b == audioPause([a EXCEPT !.playing = FALSE,
                                  !.onEndCallback = NoCallback,
                                  !.volume = 0])
    IN  [b EXCEPT !.media = "bad", !.released = TRUE, !.halt = "stop",
                  !.started = FALSE, !.stalled = FALSE,
                  !.chains = BagOfAll(MarkStopped, @)]

\* The platform refuses a further attempt of x only while one more fits.
MayBlock(x) == x.att + 1 < MaxAttempts

\* A further play() invocation fits.
MayPlay(a) == BagCardinality(Purge(a).chains) < MaxChains

\* -------------------------------------------------------- one run-to-completion step
\* The state a step works on. exc is the exception in flight, ok is FALSE
\* when the step would leave the bounds of the model.
World ==
    [heap |-> [p \in Objs |-> Purge(heap[p])], players |-> players,
     sources |-> sources, autoStart |-> autoStart, inits |-> inits,
     effects |-> effects, run |-> currentIndex, nruns |-> nruns,
     started |-> nstarted, trace |-> <<>>, exc |-> "none", ok |-> TRUE]

Commit(w) ==
    /\ w.ok
    /\ heap' = w.heap
    /\ players' = w.players
    /\ sources' = w.sources
    /\ autoStart' = w.autoStart
    /\ inits' = w.inits
    /\ effects' = w.effects
    /\ currentIndex' = w.run
    /\ nruns' = w.nruns
    /\ nstarted' = w.started
    /\ trace' = w.trace
    /\ fault' = w.exc

Emit(w, e) == [w EXCEPT !.trace = Append(@, e)]

\* ------------------------------------------------------ AudioPlayerWidget
\* The units the runs 1..r have started.
RECURSIVE Started(_, _)
Started(w, r) == IF r = 0 THEN 0 ELSE w.started[r] + Started(w, r - 1)

\* playNext that restarts at 0 only once the cursor is past the length.
playNextOffByOne(w, r, allowed) ==
    LET n == Len(w.players)
        w1 == IF w.run[r] > n THEN [w EXCEPT !.run[r] = 0] ELSE w
    IN  IF n = 0 \/ w1.run[r] >= n THEN [w1 EXCEPT !.exc = "TypeError"]
        ELSE LET p == w1.players[w1.run[r] + 1]
                 a1 == [registerOnEndCallback(w1.heap[p], NextCallback(r))
                           EXCEPT !.stalled = FALSE]
                 w2 == Emit(Emit(w1, Event("register", a1)), Event("audio-started", a1))
             IN  IF ~MayPlay(a1) \/ Started(w2, MaxRuns) >= MaxStarts
                 THEN [w2 EXCEPT !.ok = FALSE]
                 ELSE Emit([w2 EXCEPT !.heap[p] = play(a1, FALSE, allowed),
                                      !.started[r] = @ + 1],
                           Event("play", a1))

\* playNext without the wrap of line 477.
playNextNoWrap(w, r, allowed) ==
    LET n == Len(w.players) IN
    IF n = 0 \/ w.run[r] >= n THEN [w EXCEPT !.exc = "TypeError"]
    ELSE LET p == w.players[w.run[r] + 1]
             a1 == [registerOnEndCallback(w.heap[p], NextCallback(r))
                       EXCEPT !.stalled = FALSE]
             w2 == Emit(Emit(w, Event("register", a1)), Event("audio-started", a1))
         IN  IF ~MayPlay(a1) \/ Started(w2, MaxRuns) >= MaxStarts
             THEN [w2 EXCEPT !.ok = FALSE]
             ELSE Emit([w2 EXCEPT !.heap[p] = play(a1, FALSE, allowed),
                                  !.started[r] = @ + 1],
                       Event("play", a1))

\* playNext that calls play() before it notifies.
playNextPlaysFirst(w, r, allowed) ==
    LET n == Len(w.players)
        w1 == IF w.run[r] >= n THEN [w EXCEPT !.run[r] = 0] ELSE w
    IN  IF n = 0 THEN [w1 EXCEPT !.exc = "TypeError"]
        ELSE LET p == w1.players[w1.run[r] + 1]
                 a1 == [registerOnEndCallback(w1.heap[p], NextCallback(r))
                           EXCEPT !.stalled = FALSE]
                 w2 == Emit(w1, Event("register", a1))
             IN  IF ~MayPlay(a1) \/ Started(w2, MaxRuns) >= MaxStarts
                 THEN [w2 EXCEPT !.ok = FALSE]
                 ELSE Emit(Emit([w2 EXCEPT !.heap[p] = play(a1, FALSE, allowed),
                                           !.started[r] = @ + 1],
                                Event("play", a1)),
                           Event("audio-started", a1))

\* playNext (lines 476-486) of the closure r. With an empty players array
\* players[currentIndex] is undefined and the call of registerOnEndCallback
\* on it throws a TypeError.
playNext(w, r, allowed) ==
    LET n == Len(w.players)
        w1 == IF w.run[r] >= n THEN [w EXCEPT !.run[r] = 0] ELSE w
    IN  IF n = 0 THEN [w1 EXCEPT !.exc = "TypeError"]
        ELSE LET p == w1.players[w1.run[r] + 1]
                 a1 == [registerOnEndCallback(w1.heap[p], NextCallback(r))
                           EXCEPT !.stalled = FALSE]
                 w2 == Emit(Emit(w1, Event("register", a1)), Event("audio-started", a1))
             IN  IF ~MayPlay(a1) \/ Started(w2, MaxRuns) >= MaxStarts
                 THEN [w2 EXCEPT !.ok = FALSE]
                 ELSE Emit([w2 EXCEPT !.heap[p] = play(a1, FALSE, allowed),
                                      !.started[r] = @ + 1],
                           Event("play", a1))

\* playAsPlaylist() (lines 472-488).
playAsPlaylist(w, allowed) ==
    IF Len(w.sources) = 0 THEN w
    ELSE IF w.nruns >= MaxRuns THEN [w EXCEPT !.ok = FALSE]
    ELSE playNext([w EXCEPT !.nruns = @ + 1, !.run[w.nruns + 1] = 0],
                  w.nruns + 1, allowed)

\* The object a `new AudioPlayer` yields: the first slot not in use; 0 when
\* there is none.
Alloc(w) ==
    IF \E p \in Objs : ~w.heap[p].alive
    THEN CHOOSE p \in Objs : ~w.heap[p].alive /\ \A q \in 1..(p - 1) : w.heap[q].alive
    ELSE 0

\* for (const player of this.players) player.destroy(); this.players = []
\* (lines 386-387, 374-377).
destroyPlayers(w) ==
    [w EXCEPT !.heap = [p \in Objs |->
                           IF \E i \in DOMAIN w.players : w.players[i] = p
                           THEN destroy(w.heap[p]) ELSE w.heap[p]],
              !.players = <<>>]

\* The end of initialize() (lines 463-466). An exception of playAsPlaylist()
\* rejects the promise of initialize(), which nobody awaits.
initializeEnd(w, allowed) ==
    LET w1 == [w EXCEPT !.effects = TRUE] IN
    IF w1.autoStart THEN playAsPlaylist(w1, allowed) ELSE w1

\* The loop of initialize() (lines 404-462) over the entries src that are
\* left of the array it iterates, up to the next await or the end of
\* initialize(). A suspended invocation keeps the entries from the current
\* one on, and the player it has built for the current one.
RECURSIVE initializeLoop(_, _, _)
initializeLoop(w, src, allowed) ==
    IF src = <<>> THEN initializeEnd(w, allowed)
    ELSE IF Head(src).type = "file-asset" /\ Head(src).ref
    THEN IF BagCardinality(w.inits) >= MaxInits THEN [w EXCEPT !.ok = FALSE]
         ELSE [w EXCEPT !.inits = @ (+) One([src |-> src, at |-> "getFileUrl",
                                             player |-> 0])]
    ELSE IF Head(src).type = "url" /\ Head(src).ref
    THEN LET p == Alloc(w) IN
         IF p = 0 THEN [w EXCEPT !.ok = FALSE]
         ELSE initializeLoop(
                  [w EXCEPT !.heap[p] = registerOnEndCallback(
                                            NewPlayer(Head(src).id, 10), TriggerCallback),
                            !.players = Append(@, p)],
                  Tail(src), allowed)
    ELSE initializeLoop(w, Tail(src), allowed)

\* initialize() up to its first await (lines 384-409).
initialize(w, allowed) == initializeLoop(destroyPlayers(w), w.sources, allowed)

\* initialize() from the settled getFileUrl() promise (lines 409-433) of the
\* invocation v: with a url the player is built and pushed, and the loop
\* awaits getFileNode(); without one, or with an exception, the source is
\* skipped.
afterGetFileUrl(w, v, url, allowed) ==
    LET w1 == [w EXCEPT !.inits = @ (-) One(v)]
        p == Alloc(w1)
    IN  IF ~url THEN initializeLoop(w1, Tail(v.src), allowed)
        ELSE IF p = 0 THEN [w1 EXCEPT !.ok = FALSE]
        ELSE [w1 EXCEPT !.heap[p] = NewPlayer(Head(v.src).id, 10),
                        !.players = Append(@, p),
                        !.inits = @ (+) One([v EXCEPT !.at = "getFileNode",
                                                      !.player = p])]

\* initialize() from the settled getFileNode() promise (lines 433-462). The
\* await is outside the try block: a rejection ends initialize().
afterGetFileNode(w, v, found, allowed) ==
    LET w1 == [w EXCEPT !.inits = @ (-) One(v)] IN
    IF ~found THEN [w1 EXCEPT !.exc = "Error"]
    ELSE initializeLoop(
             [w1 EXCEPT !.heap[v.player] = registerOnEndCallback(@, TriggerCallback)],
             Tail(v.src), allowed)

\* The first player with the id, 0 when there is none (lines 338, 354).
Find(w, id) ==
    IF \E i \in DOMAIN w.players : w.heap[w.players[i]].id = id
    THEN w.players[CHOOSE i \in DOMAIN w.players :
                      /\ w.heap[w.players[i]].id = id
                      /\ \A j \in 1..(i - 1) : w.heap[w.players[j]].id # id]
    ELSE 0

\* AudioPlayerWidget.play(id, loop) (lines 336-345).
widgetPlay(w, id, loop, allowed) ==
    LET p == Find(w, id) IN
    IF p = 0 THEN w
    ELSE IF ~MayPlay(w.heap[p]) THEN [w EXCEPT !.ok = FALSE]
    ELSE [w EXCEPT !.heap[p] =
              play(IF w.heap[p].playing THEN rewind(w.heap[p]) ELSE w.heap[p],
                   loop, allowed)]

\* AudioPlayerWidget.stop(id) (lines 352-360).
widgetStop(w, id) ==
    LET p == Find(w, id) IN
    IF p = 0 THEN w ELSE [w EXCEPT !.heap[p] = stop(@)]

\* The effect 'Stop all audio' (lines 394-396).
stopAll(w) ==
    [w EXCEPT !.heap = [p \in Objs |->
                           IF \E i \in DOMAIN w.players : w.players[i] = p
                           THEN stop(w.heap[p]) ELSE w.heap[p]]]

\* The callback the listener invokes: a callback of the caller runs and
\* returns or throws (throws), the widget's callbacks are those of lines
\* 461 and 479-483.
runCallback(w, p, allowed, throws) ==
    LET a == w.heap[p]
        cb == a.onEndCallback
    IN  CASE cb.k = "user" ->
                IF throws
                THEN [Emit(Emit(w, Event("callback", a)), Event("throw", a))
                          EXCEPT !.exc = "Error"]
                ELSE Emit(w, Event("callback", a))
          [] cb.k = "trigger" -> Emit(w, Event("audio-ended", a))
          [] cb.k = "next" ->
                playNext([Emit(w, Event("audio-ended", a)) EXCEPT !.run[cb.r] = @ + 1],
                         cb.r, allowed)

\* The invocation without the try/catch around it.
invokeCallbackUncaught(w, p, allowed, throws) == runCallback(w, p, allowed, throws)

\* try { this.onEndCallback() } catch (e) { console.error(...) } (lines
\* 42-46): whatever the callback throws is logged and goes no further.
invokeCallback(w, p, allowed, throws) ==
    LET done == runCallback(w, p, allowed, throws) IN
    IF done.exc = "none" THEN done
    ELSE [Emit(done, Event("console.error", w.heap[p])) EXCEPT !.exc = "none"]

\* The 'ended' listener of the constructor (lines 38-48).
endedListener(w, p, allowed, throws) ==
    IF ~w.heap[p].playing THEN w
    ELSE LET w1 == [w EXCEPT !.heap[p].playing = FALSE] IN
         IF w1.heap[p].onEndCallback.k = "none" THEN w1
         ELSE invokeCallback(w1, p, allowed, throws)

\* ------------------------------------------------------------------ actions
\* Calls of the public AudioPlayer methods on the object p.
Play(p) ==
    \E loop \in BOOLEAN, allowed \in BOOLEAN :
        /\ heap[p].alive
        /\ MayPlay(heap[p])
        /\ Commit([World EXCEPT !.heap[p] = play(@, loop, allowed)])

Rewind(p) ==
    /\ heap[p].alive
    /\ Commit([World EXCEPT !.heap[p] = rewind(@)])

\* stop() that fires the end callback as the 'ended' listener does.
StopInvokingCallback(p) ==
    /\ heap[p].alive
    /\ Commit(endedListener([World EXCEPT !.heap[p] = audioPause(@)], p, TRUE, FALSE))

Stop(p) ==
    /\ heap[p].alive
    /\ Commit([World EXCEPT !.heap[p] = stop(@)])

Pause(p) ==
    /\ heap[p].alive
    /\ Commit([World EXCEPT !.heap[p] = pause(@)])

SetVolume(p) ==
    \E v \in VolumeInputs :
        /\ heap[p].alive
        /\ Commit([World EXCEPT !.heap[p] = setVolume(@, v)])

RegisterOnEndCallback(p) ==
    /\ heap[p].alive
    /\ Commit([World EXCEPT !.heap[p] = registerOnEndCallback(@, UserCallback)])

Destroy(p) ==
    /\ heap[p].alive
    /\ Commit([World EXCEPT !.heap[p] = destroy(@)])

\* Platform callbacks.
\* A rejected audio.play() promise resumes attemptPlay in its catch block.
PlayRejected(p) ==
    \E x \in InFlight(heap[p]) :
        /\ x.st = "rejected"
        /\ Commit([World EXCEPT !.heap[p] = catchPlay(@, x)])

\* A 250 ms timer fires.
BackoffElapsed(p) ==
    \E x \in InFlight(heap[p]), allowed \in BOOLEAN :
        /\ x.st = "backoff"
        /\ allowed \/ ~heap[p].playing \/ MayBlock(x)
        /\ Commit([World EXCEPT !.heap[p] = afterBackoff(@, x, allowed)])

ResolvePending(x) ==
    IF x.st = "pending" THEN [x EXCEPT !.st = "done", !.res = "started"] ELSE x

\* Playback begins: the element resolves all its pending play promises and
\* every play() awaiting one of them returns.
PlaybackStarted(p) ==
    /\ ~heap[p].paused
    /\ heap[p].media # "bad"
    /\ \E x \in InFlight(heap[p]) : x.st = "pending"
    /\ Commit([World EXCEPT !.heap[p].media = "ok",
                            !.heap[p].started = TRUE,
                            !.heap[p].chains = BagOfAll(ResolvePending, @)])

RejectPending(x) ==
    IF x.st = "pending"
    THEN [x EXCEPT !.st = "rejected", !.err = "NotSupportedError"] ELSE x

\* The resource turns out not to be playable: the pending play promises are
\* rejected with NotSupportedError.
LoadFailed(p) ==
    /\ heap[p].alive
    /\ heap[p].media = "unknown"
    /\ Commit([World EXCEPT !.heap[p].media = "bad",
                            !.heap[p].chains = BagOfAll(RejectPending, @)])

\* The resource reaches its end while playing without loop: the element
\* pauses itself and fires 'ended'.
Ended(p) ==
    \E allowed \in BOOLEAN,
       throws \in IF heap[p].onEndCallback = UserCallback THEN BOOLEAN ELSE {FALSE} :
        /\ ~heap[p].paused
        /\ heap[p].media = "ok"
        /\ ~heap[p].loop
        /\ \A x \in InFlight(heap[p]) : x.st # "pending"
        /\ Commit(endedListener(Emit([World EXCEPT !.heap[p].paused = TRUE,
                                                   !.heap[p].halt = "ended",
                                                   !.heap[p].started = FALSE],
                                      Event("ended", heap[p])),
                                 p, allowed, throws))

\* ------------------------------------------------- one AudioPlayer on its own
\* No widget around the player.
NoWidget ==
    /\ sources = <<>>
    /\ autoStart = FALSE
    /\ inits = EmptyBag
    /\ effects = FALSE

\* new AudioPlayer(url) with the default volume, driven through its public
\* methods and the platform's callbacks.
InitUnit ==
    /\ heap = [p \in Objs |-> IF p = 1 THEN NewPlayer(1, 10) ELSE NoPlayer]
    /\ players = <<>>
    /\ NoWidget
    /\ currentIndex = [r \in Runs |-> 0]
    /\ nruns = 0
    /\ nstarted = [r \in Runs |-> 0]
    /\ trace = <<>>
    /\ fault = "none"

NextUnit ==
    \/ Play(1)
    \/ Rewind(1)
    \/ Stop(1)
    \/ Pause(1)
    \/ RegisterOnEndCallback(1)
    \/ Destroy(1)
    \/ PlayRejected(1)
    \/ BackoffElapsed(1)
    \/ PlaybackStarted(1)
    \/ LoadFailed(1)
    \/ Ended(1)

SpecUnit == InitUnit /\ [][NextUnit]_vars

\* new AudioPlayer(url, v) for the volume inputs, with setVolume as well.
InitApi ==
    /\ \E v \in VolumeInputs :
           heap = [p \in Objs |-> IF p = 1 THEN NewPlayer(1, v) ELSE NoPlayer]
    /\ players = <<>>
    /\ NoWidget
    /\ currentIndex = [r \in Runs |-> 0]
    /\ nruns = 0
    /\ nstarted = [r \in Runs |-> 0]
    /\ trace = <<>>
    /\ fault = "none"

NextApi ==
    \/ NextUnit
    \/ SetVolume(1)

SpecApi == InitApi /\ [][NextApi]_vars

\* The calls a caller can make on new AudioPlayer(url, v), setVolume among
\* them, while the platform has not answered any audio.play() yet.
NextVolume ==
    \/ SetVolume(1)
    \/ Play(1)
    \/ Stop(1)
    \/ Pause(1)
    \/ Destroy(1)

SpecVolume == InitApi /\ [][NextVolume]_vars

\* -------------------------------------------- a platform that always refuses
\* play(loop) while the platform refuses audio.play().
PlayRefused(p) ==
    \E loop \in BOOLEAN :
        /\ heap[p].alive
        /\ MayPlay(heap[p])
        /\ Commit([World EXCEPT !.heap[p] = play(@, loop, FALSE)])

\* A 250 ms timer fires and the platform refuses the next audio.play().
BackoffRefused(p) ==
    \E x \in InFlight(heap[p]) :
        /\ x.st = "backoff"
        /\ Commit([World EXCEPT !.heap[p] = afterBackoff(@, x, FALSE)])

\* A player on a page without user interaction: every audio.play() is
\* refused with NotAllowedError, and nobody calls stop() or destroy().
NextBlocked ==
    \/ PlayRefused(1)
    \/ Pause(1)
    \/ Rewind(1)
    \/ RegisterOnEndCallback(1)
    \/ PlayRejected(1)
    \/ BackoffRefused(1)

\* The event loop runs the promise reactions and the timers that are due.
SpecBlocked ==
    /\ InitUnit
    /\ [][NextBlocked]_vars
    /\ WF_vars(PlayRejected(1))
    /\ WF_vars(BackoffRefused(1))

\* ------------------------------------------------------- the playlist alone
\* "Play all audio as playlist" (line 401).
PlayAsPlaylist ==
    \E allowed \in BOOLEAN : Commit(playAsPlaylist(World, allowed))

\* The widget after initialize() has built n players from n URL sources
\* (lines 417-420, 461), driven only by playAsPlaylist() and the platform.
Built(n) ==
    /\ heap = [p \in Objs |->
                 IF p <= n
                 THEN registerOnEndCallback(NewPlayer(p, 10), TriggerCallback)
                 ELSE NoPlayer]
    /\ players = [i \in 1..n |-> i]
    /\ sources = [i \in 1..n |-> Source("url", TRUE, i)]
    /\ autoStart = FALSE
    /\ inits = EmptyBag
    /\ effects = TRUE
    /\ currentIndex = [r \in Runs |-> 0]
    /\ nruns = 0
    /\ nstarted = [r \in Runs |-> 0]
    /\ trace = <<>>
    /\ fault = "none"

InitPlaylist == \E n \in Objs : Built(n)

NextPlaylist ==
    \/ PlayAsPlaylist
    \/ \E p \in Objs : Ended(p)
    \/ \E p \in Objs : PlayRejected(p)
    \/ \E p \in Objs : BackoffElapsed(p)
    \/ \E p \in Objs : PlaybackStarted(p)
    \/ \E p \in Objs : LoadFailed(p)

SpecPlaylist == InitPlaylist /\ [][NextPlaylist]_vars

\* ------------------------------------------------------------- the widget
\* The settings of the widget: every array of at most MaxSources sources, the
\* i-th with id i, each a url source, a file asset, or a source without its
\* url or file.
SourceKinds ==
    {Source("url", TRUE, 0), Source("file-asset", TRUE, 0), Source("file-asset", FALSE, 0)}

SourceLists ==
    UNION {{[i \in 1..n |-> [f[i] EXCEPT !.id = i]] : f \in [1..n -> SourceKinds]} :
           n \in 0..MaxSources}

\* The sources setting changes: the observer (line 229) calls initialize().
SetSources ==
    \E src \in SourceLists, allowed \in BOOLEAN :
        /\ src # sources
        /\ Commit(initialize([World EXCEPT !.sources = src], allowed))

\* haptic.board.assets.getFileUrl() settles for a suspended initialize().
GetFileUrlSettled ==
    \E v \in BagToSet(inits), url \in BOOLEAN, allowed \in BOOLEAN :
        /\ v.at = "getFileUrl"
        /\ Commit(afterGetFileUrl(World, v, url, allowed))

\* haptic.board.assets.getFileNode() settles for a suspended initialize().
GetFileNodeSettled ==
    \E v \in BagToSet(inits), found \in BOOLEAN, allowed \in BOOLEAN :
        /\ v.at = "getFileNode"
        /\ Commit(afterGetFileNode(World, v, found, allowed))

\* The effect 'Play all audio as playlist' (line 401), once registered.
PlayAsPlaylistEffect ==
    \E allowed \in BOOLEAN :
        /\ effects
        /\ Commit(playAsPlaylist(World, allowed))

\* The effect 'Stop all audio', once registered.
StopAll ==
    /\ effects
    /\ Commit(stopAll(World))

\* play(id, loop) and stop(id) of the widget (the effects of lines 445-459
\* and the public methods), for the ids the players can have.
WidgetPlay ==
    \E id \in Objs, loop \in BOOLEAN, allowed \in BOOLEAN :
        Commit(widgetPlay(World, id, loop, allowed))

WidgetStop ==
    \E id \in Objs : Commit(widgetStop(World, id))

\* The widget as its constructor leaves it (lines 218-232): initialize() has
\* run on the stored settings up to its first await.
Construct(src, auto, allowed) ==
    initialize([heap |-> [p \in Objs |-> NoPlayer], players |-> <<>>,
                sources |-> src, autoStart |-> auto, inits |-> EmptyBag,
                effects |-> FALSE, run |-> [r \in Runs |-> 0], nruns |-> 0,
                started |-> [r \in Runs |-> 0], trace |-> <<>>, exc |-> "none",
                ok |-> TRUE],
               allowed)

InitWidget ==
    \E src \in SourceLists, auto \in BOOLEAN, allowed \in BOOLEAN :
        LET w == Construct(src, auto, allowed) IN
        /\ w.ok
        /\ heap = w.heap
        /\ players = w.players
        /\ sources = w.sources
        /\ autoStart = w.autoStart
        /\ inits = w.inits
        /\ effects = w.effects
        /\ currentIndex = w.run
        /\ nruns = w.nruns
        /\ nstarted = w.started
        /\ trace = w.trace
        /\ fault = w.exc

\* The configuration side of the widget: the settings change, the asset
\* lookups of the suspended initialize() invocations settle, and the playlist
\* effect is triggered. Playback itself is the subject of SpecPlaylist.
NextWidget ==
    \/ SetSources
    \/ GetFileUrlSettled
    \/ GetFileNodeSettled
    \/ PlayAsPlaylistEffect

SpecWidget == InitWidget /\ [][NextWidget]_vars

\* The widget on a page the user has interacted with: the platform refuses
\* no audio.play(). The playlist effect:
StartAllowed ==
    /\ effects
    /\ Commit(playAsPlaylist(World, TRUE))

\* play(id, loop) of the widget.
WidgetPlayAllowed ==
    \E id \in 1..MaxUnits, loop \in BOOLEAN :
        Commit(widgetPlay(World, id, loop, TRUE))

\* The 'ended' event, with a callback that returns.
EndedAllowed(p) ==
    /\ ~heap[p].paused
    /\ heap[p].media = "ok"
    /\ ~heap[p].loop
    /\ \A x \in InFlight(heap[p]) : x.st # "pending"
    /\ Commit(endedListener(Emit([World EXCEPT !.heap[p].paused = TRUE,
                                               !.heap[p].halt = "ended",
                                               !.heap[p].started = FALSE],
                                  Event("ended", heap[p])),
                             p, TRUE, FALSE))

\* The widget after initialize() has built its players from URL sources,
\* driven through the playlist effect, 'Stop all audio', play(id, loop),
\* stop(id) and the platform's callbacks.
NextControl ==
    \/ StartAllowed
    \/ StopAll
    \/ WidgetPlayAllowed
    \/ WidgetStop
    \/ \E p \in Objs : EndedAllowed(p)
    \/ \E p \in Objs : PlayRejected(p)
    \/ \E p \in Objs : PlaybackStarted(p)
    \/ \E p \in Objs : LoadFailed(p)

SpecControl == (\E n \in 1..MaxUnits : Built(n)) /\ [][NextControl]_vars

\* ================================================================== claims
AllChains(p) == BagToSet(heap[p].chains)

CallbackEvents == {i \in DOMAIN trace : trace[i].ev \in {"callback", "audio-ended"}}

\* The last step was the 'ended' event of the element.
NaturalEnd == trace # <<>> /\ trace[1].ev = "ended"

\* C1 (retry abort): an invocation of play() that a stop() found waiting for
\* its 250 ms timer makes no further attempt and does not start playback,
\* whatever is called afterwards: it waits for the timer or has resolved
\* as aborted.
C1_RetryAbort ==
    \A p \in Objs : \A x \in AllChains(p) :
        x.cancelled => \/ x.st = "backoff"
                       \/ x.st = "done" /\ x.res = "aborted"

\* C2 (retry termination): the only play() called on a player, with no
\* stop()/destroy() during it, is never given up by the liveness check; when
\* its first two attempts were refused and the third started playback it has
\* made exactly three attempts and waited for exactly two timers, and it
\* resolves with playing still true.
C2_Case(a, x) ==
    x.st = "done" /\ a.plays = 1 /\ a.halt # "stop" /\ x.res = "started" /\ x.blk = 2

C2_RetryTermination ==
    \A p \in Objs : \A x \in Resolved(heap[p]) :
        /\ heap[p].plays = 1 /\ heap[p].halt # "stop" => x.res # "aborted"
        /\ C2_Case(heap[p], x) => x.att = 3 /\ x.boff = 2 /\ heap[p].playing

C2_Witness == \E p \in Objs : \E x \in Resolved(heap[p]) : C2_Case(heap[p], x)

\* C3 (non-retryable failure): an attempt that fails with anything but
\* NotAllowedError is the last attempt of its invocation: the invocation only
\* waits for its catch block, and then resolves with playing false and no
\* exception escaping.
C3_NonRetryable ==
    \A p \in Objs : \A x \in AllChains(p) :
        /\ x.err \in {"NotSupportedError", "AbortError"} =>
              \/ x.st = "rejected"
              \/ x.st = "done" /\ x.res = "abandoned"
        /\ x.st = "done" /\ x.res = "abandoned" =>
              /\ x.att = x.blk + 1
              /\ ~heap[p].playing
              /\ fault = "none"

C3_Witness ==
    \E p \in Objs : \E x \in Resolved(heap[p]) : x.res = "abandoned" /\ x.blk > 0

\* C4 (end-callback suppression): the registered end callback is invoked
\* only in a step that is the element's 'ended' event, so never by stop() or
\* pause().
C4_CallbackOnlyOnEnded == CallbackEvents # {} => NaturalEnd

\* stop() has halted a player that had started playing and has a callback.
C4_Witness ==
    /\ heap[1].onEndCallback # NoCallback
    /\ heap[1].media = "ok" /\ heap[1].paused /\ ~heap[1].playing
    /\ ~heap[1].released
    /\ trace = <<>>

\* C5: every 'ended' event of a player with a registered callback invokes
\* that callback exactly once, with playing already false.
C5_CallbackOnEveryEnded ==
    \A p \in Objs :
        NaturalEnd /\ trace[1].id = heap[p].id /\ heap[p].alive
                   /\ heap[p].onEndCallback = UserCallback
        => /\ Len(trace) >= 2
           /\ trace[2].ev = "callback"
           /\ ~trace[2].playing
           /\ Cardinality(CallbackEvents) = 1

\* C6: on a destroyed player play, stop, pause, setVolume and destroy change
\* nothing: playing stays false, the volume 0, the callback slot empty, no
\* audio.play() call is made and no exception escapes.
C6_DestroyedIsInert ==
    [][\A p \in Objs :
          heap[p].released
          /\ (Play(p) \/ Stop(p) \/ Pause(p) \/ SetVolume(p) \/ Destroy(p))
          => /\ ~heap'[p].playing
             /\ heap'[p].volume = 0
             /\ heap'[p].onEndCallback = NoCallback
             /\ BagCardinality(heap'[p].chains) <= BagCardinality(heap[p].chains)
             /\ fault' = "none"]_vars

PlayersSet == {players[i] : i \in DOMAIN players}

\* C7 (single active): at most one player of the playlist has playing true.
C7_SingleActive == Cardinality({p \in PlayersSet : heap[p].playing}) <= 1

\* C8 (re-arm safety): once playAsPlaylist() has been called again, the
\* handlers of the earlier call are out of use: no 'ended' event advances
\* the cursor of an earlier call, and a step advances at most one cursor and
\* starts at most one unit.
C8_RearmSafety ==
    [][/\ \A r \in Runs : r < nruns => nstarted'[r] = nstarted[r]
       /\ Cardinality({r \in Runs : nstarted'[r] # nstarted[r]}) <= 1
       /\ Cardinality({i \in DOMAIN trace' : trace'[i].ev = "play"}) <= 1]_vars

\* C9 (cyclic order): the k-th unit that a playAsPlaylist() call starts
\* (k = 0, 1, ...) is players[k mod n], it is played without loop, and every
\* 'ended' event that reaches the advancement handler starts a unit.
PlayedBy(e) == CHOOSE p \in PlayersSet : heap[p].id = e.id

C9_CyclicOrder ==
    \A i \in DOMAIN trace :
        /\ trace[i].ev = "play" =>
              LET p == PlayedBy(trace[i])
                  r == heap[p].onEndCallback.r
              IN  /\ heap[p].onEndCallback.k = "next"
                  /\ nstarted[r] >= 1
                  /\ p = players[((nstarted[r] - 1) % Len(players)) + 1]
                  /\ currentIndex[r] = (nstarted[r] - 1) % Len(players)
                  /\ ~heap[p].loop
        /\ trace[i].ev = "audio-ended" =>
              \E j \in DOMAIN trace : j > i /\ trace[j].ev = "play"

\* A run has wrapped around: it has started more units than there are, the
\* last one on an 'ended' event.
C9_Witness ==
    /\ NaturalEnd
    /\ Len(players) >= 2
    /\ \E i \in DOMAIN trace :
          /\ trace[i].ev = "play"
          /\ nstarted[heap[PlayedBy(trace[i])].onEndCallback.r] > Len(players)

\* C10: playAsPlaylist() is a no-op whenever the players array is empty: it
\* selects no unit, emits no notification and throws nothing, also when
\* sources are configured but none yielded a player, or when a running
\* initialize() has just cleared the array.
C10_EmptyStartNoOp ==
    [][(players = <<>> /\ PlayAsPlaylistEffect)
          => (fault' = "none" /\ trace' = <<>> /\ UNCHANGED players)]_vars

\* C11 as stated: playing is true only if an attempt has succeeded and
\* neither an explicit stop nor a natural end has come since that success.
C11_PlayingOnlyAfterSuccess ==
    \A p \in Objs : heap[p].playing => heap[p].started

\* C11 as amended: playing is true only if play() has been called and
\* neither stop()/destroy() nor an 'ended' event has come since the latest
\* play() call; no attempt need have succeeded.
C11_PlayingOnlyAfterPlay ==
    \A p \in Objs : heap[p].playing => heap[p].plays > 0 /\ heap[p].halt = "none"

\* play() has set the flag while its first attempt is still undecided.
C11_Witness ==
    /\ heap[1].playing /\ ~heap[1].started
    /\ \E x \in InFlight(heap[1]) : x.st = "pending"

\* The volume the claim expects for the input v, in tenths.
C12_Expected(v) == IF v < 0 THEN 0 ELSE IF v > 10 THEN 10 ELSE v

\* C12 (volume clamp): the constructor stores the clamped initial volume,
\* setVolume(v) stores the clamped v for every input below 0, inside [0,1]
\* and above 1, and the stored volume is in [0,1] in every state, also after
\* destroy().
C12_VolumeClamp ==
    /\ heap[1].volume \in {C12_Expected(v) : v \in VolumeInputs}
    /\ [](\A p \in Objs : heap[p].volume >= 0 /\ heap[p].volume <= 10)
    /\ [][\A v \in VolumeInputs :
              (heap[1].alive /\ Commit([World EXCEPT !.heap[1] = setVolume(@, v)]))
              => heap'[1].volume = C12_Expected(v)]_vars

\* setVolume(1.7) on a destroyed player: destroy() had set the volume to 0.
C12_Witness == heap[1].released /\ heap[1].volume = 10

\* The events of the last step with the name ev.
Events(ev) == {i \in DOMAIN trace : trace[i].ev = ev}

\* C13 (callback fault containment): when the end callback throws on an
\* 'ended' event, playing is false afterwards, the exception is logged and
\* does not leave the listener, and the player is left exactly as a callback
\* that returns leaves it, so that every later operation behaves the same.
C13_FaultContained ==
    [][Events("throw")' # {}
          => /\ fault' = "none"
             /\ Events("console.error")' # {}
             /\ ~heap'[1].playing
             /\ heap' = endedListener([World EXCEPT !.heap[1].paused = TRUE,
                                                    !.heap[1].halt = "ended",
                                                    !.heap[1].started = FALSE],
                                      1, TRUE, FALSE).heap]_vars

\* The callback has thrown on an 'ended' event.
C13_Witness == NaturalEnd /\ Events("throw") # {}

\* C14: play() gives up after a bounded number of refused attempts: while
\* every attempt is refused and neither stop() nor destroy() is called, an
\* invocation in flight is followed by an invocation that resolves.
C14_GivesUp == (InFlight(heap[1]) # {}) ~> (Resolved(heap[1]) # {})

\* C15 (step ordering): whenever the playlist selects a unit, the same step
\* registers the handler on it, then notifies 'audio-started' for it, then
\* calls play() on it, with nothing in between; on an 'ended' event the
\* 'audio-ended' notification of the finished unit comes first.
C15_StepOrdering ==
    \A i \in DOMAIN trace :
        /\ trace[i].ev = "register" =>
              /\ i + 2 <= Len(trace)
              /\ trace[i + 1].ev = "audio-started" /\ trace[i + 1].id = trace[i].id
              /\ trace[i + 2].ev = "play" /\ trace[i + 2].id = trace[i].id
        /\ trace[i].ev = "audio-started" => i > 1 /\ trace[i - 1].ev = "register"
        /\ trace[i].ev = "play" => i > 2 /\ trace[i - 1].ev = "audio-started"
        /\ trace[i].ev = "audio-ended" =>
              /\ NaturalEnd /\ i = 2 /\ trace[i].id = trace[1].id
              /\ \A j \in DOMAIN trace : trace[j].ev = "audio-started" => j > i

\* An 'ended' event has advanced the playlist to another unit.
C15_Witness ==
    /\ NaturalEnd /\ Len(trace) = 5
    /\ trace[2].ev = "audio-ended" /\ trace[5].ev = "play"
    /\ trace[5].id # trace[1].id

\* The events of the last step in which playNext started a unit.
PlayEvents == Events("play") \cup Events("audio-started")

\* C16 (stall): once the unit the playlist has selected was stopped, or its
\* play() abandoned, the playlist does not advance: no step moves the cursor
\* or starts a unit, unless playAsPlaylist() is called again.
C16_Stall ==
    [][(/\ nruns = 1 /\ nruns' = 1
        /\ players # <<>>
        /\ heap[players[currentIndex[1] + 1]].stalled)
          => currentIndex'[1] = currentIndex[1] /\ PlayEvents' = {}]_vars

\* C17 (cursor invariant): with n > 0 players the cursor of every playlist
\* run is in 0..n-1 after each step, and when the last player of the array
\* ends and the playlist advances, the unit started is the first one.
C17_CursorInRange ==
    players # <<>> =>
        /\ \A r \in 1..nruns : currentIndex[r] \in 0..(Len(players) - 1)
        /\ NaturalEnd /\ trace[1].id = heap[players[Len(players)]].id =>
              \A i \in Events("play") : trace[i].id = heap[players[1]].id

\* The last of several players has ended and the playlist has wrapped.
C17_Witness ==
    /\ Len(players) >= 2
    /\ NaturalEnd /\ trace[1].id = heap[players[Len(players)]].id
    /\ \E i \in Events("play") : trace[i].id = heap[players[1]].id
    /\ \E r \in 1..nruns : currentIndex[r] = 0 /\ nstarted[r] > Len(players)

\* C18: the playlist advances only while it runs. When a unit that was
\* stopped after the playlist armed it is played on its own by play(id), no
\* other unit playing, its 'ended' event starts no other unit and notifies
\* 'audio-started' for no other unit.
C18_NoAdvanceWhenHalted ==
    [][\A p \in PlayersSet :
          (/\ heap[p].stalled
           /\ \A q \in PlayersSet \ {p} : ~heap[q].playing /\ heap[q].paused
           /\ trace' # <<>> /\ trace'[1].ev = "ended" /\ trace'[1].id = heap[p].id)
          => \A i \in PlayEvents' : trace'[i].id = heap[p].id]_vars

\* The invocations of play() on a that await audio.play(), wait for their
\* timer, or are about to arm it.
Attempting(a) ==
    [x \in {y \in InFlight(a) : y.st \in {"pending", "backoff"}
                                  \/ y.err = "NotAllowedError"} |-> a.chains[x]]

\* C19: a player has at most one play attempt or retry backoff pending at
\* any time, whatever sequence of play() and stop() calls is made.
C19_SingleAttempt ==
    \A p \in Objs : BagCardinality(Attempting(heap[p])) <= 1

\* C20: once every invocation of initialize() has completed, the players
\* array holds at most one player for each id, and every player that was
\* created and is not in the array has been destroyed.
C20_InitializeSettles ==
    inits = EmptyBag =>
        /\ \A i, j \in DOMAIN players :
               heap[players[i]].id = heap[players[j]].id => i = j
        /\ \A p \in Objs \ PlayersSet : heap[p].alive => heap[p].released

====
